---------------------------- MODULE Spec2Model ----------------------------
(***************************************************************************)
(* A model of streamlit_app.py, the Prebid Integration Monitor dashboard:  *)
(* the two classifiers (categorize_version, classify_module), the field    *)
(* extractors, the cached dataframe builders and the top-to-bottom script  *)
(* run (load, cleanse, summary metrics, build).                            *)
(*                                                                         *)
(* Python strings that the code parses or searches are sequences of        *)
(* one-character strings; strings the code only compares are TLA+ strings. *)
(* A JSON value is a record [t, v]: t is its JSON type, v its payload.     *)
(***************************************************************************)
EXTENDS Integers, Sequences, FiniteSets, TLC

VARIABLES
    pc,                   \* position of the script run
    feed,                 \* the records the data source can serve
    combined,             \* load_all_months: the list being gathered
    raw_data,             \* the loaded JSON list
    MAX_MODULES,          \* the sidebar slider's value
    data,                 \* the cleansed list
    site_count,
    sites_with_pb,
    instance_total,
    avg_mods,             \* [num, den]: the quotient the script formats
    version_df,
    instance_df,
    library_df,
    global_df,
    module_site_counter,
    module_inst_counter,
    ver_in,               \* categorize_version: argument
    ver_out,              \*                     result
    mod_in,               \* classify_module: argument
    mod_out               \*                  result

vars == <<pc, feed, combined, raw_data, MAX_MODULES, data, site_count,
          sites_with_pb, instance_total, avg_mods, version_df, instance_df,
          library_df, global_df, module_site_counter, module_inst_counter,
          ver_in, ver_out, mod_in, mod_out>>

pipeVars == <<pc, feed, combined, raw_data, MAX_MODULES, data, site_count,
              sites_with_pb, instance_total, avg_mods, version_df,
              instance_df, library_df, global_df, module_site_counter,
              module_inst_counter>>

-----------------------------------------------------------------------------
(* Bounds of the model.                                                    *)

MaxVersionLen == 3        \* characters of a version string
MaxFragments == 2         \* fragments a module name is built from
MaxRecords == 2           \* records of a loaded list

-----------------------------------------------------------------------------
(* JSON values.                                                            *)

Null == [t |-> "null", v |-> <<>>]
Str(s) == [t |-> "str", v |-> s]
List(l) == [t |-> "list", v |-> l]

Min(S) == CHOOSE x \in S : \A y \in S : x <= y
Max2(a, b) == IF a >= b THEN a ELSE b

RECURSIVE SumSeq(_)
SumSeq(s) == IF s = <<>> THEN 0 ELSE Head(s) + SumSeq(Tail(s))

RECURSIVE Flatten(_)
Flatten(ss) == IF ss = <<>> THEN <<>> ELSE Head(ss) \o Flatten(Tail(ss))

Range(s) == {s[i] : i \in 1..Len(s)}

SeqsUpTo(S, n) == UNION {[1..k -> S] : k \in 0..n}

-----------------------------------------------------------------------------
(* categorize_version                                                      *)

VERSION_ORDER == <<"0.x-2.x", "3.x-5.x", "6.x-7.x", "8.x", "9.x", "Other">>

Digits == {"0", "1", "2", "3", "4", "5", "6", "7", "8", "9"}

DigitVal(c) ==
    CASE c = "0" -> 0 [] c = "1" -> 1 [] c = "2" -> 2 [] c = "3" -> 3
      [] c = "4" -> 4 [] c = "5" -> 5 [] c = "6" -> 6 [] c = "7" -> 7
      [] c = "8" -> 8 [] c = "9" -> 9

\* str.lstrip(chars): every leading character that is in chars is removed.
RECURSIVE lstrip(_, _)
lstrip(s, chars) ==
    IF s # <<>> /\ Head(s) \in chars THEN lstrip(Tail(s), chars) ELSE s

RECURSIVE rstrip(_, _)
rstrip(s, chars) ==
    IF s # <<>> /\ s[Len(s)] \in chars
    THEN rstrip(SubSeq(s, 1, Len(s) - 1), chars) ELSE s

\* re.split(r"[.-]", v): the pieces between the separators, empty ones kept.
RECURSIVE re_split(_)
re_split(s) ==
    LET at == {i \in 1..Len(s) : s[i] \in {".", "-"}}
    IN  IF at = {} THEN <<s>>
        ELSE <<SubSeq(s, 1, Min(at) - 1)>>
                 \o re_split(SubSeq(s, Min(at) + 1, Len(s)))

RECURSIVE DecimalValue(_, _)
DecimalValue(s, acc) ==
    IF s = <<>> THEN acc
    ELSE IF Head(s) = "_" THEN DecimalValue(Tail(s), acc)
    ELSE DecimalValue(Tail(s), 10 * acc + DigitVal(Head(s)))

\* int(str): surrounding whitespace is ignored, one sign is allowed, the
\* digits may be grouped by single underscores.  ok = FALSE is ValueError.
py_int(tok) ==
    LET t    == rstrip(lstrip(tok, {" "}), {" "})
        sgn  == t # <<>> /\ Head(t) \in {"+", "-"}
        body == IF sgn THEN Tail(t) ELSE t
        ok   == /\ body # <<>>
                /\ \A i \in 1..Len(body) : body[i] \in Digits \cup {"_"}
                /\ body[1] \in Digits
                /\ body[Len(body)] \in Digits
                /\ \A i \in 1..(Len(body) - 1) :
                       ~(body[i] = "_" /\ body[i + 1] = "_")
        mag  == IF ok THEN DecimalValue(body, 0) ELSE 0
    IN  [ok |-> ok, n |-> IF sgn /\ Head(t) = "-" THEN 0 - mag ELSE mag]

\* The bucket of a major number (lines 130-140).
BucketOfMajor(major) ==
    IF major <= 2 THEN "0.x-2.x"
    ELSE IF 3 <= major /\ major <= 5 THEN "3.x-5.x"
    ELSE IF 6 <= major /\ major <= 7 THEN "6.x-7.x"
    ELSE IF major = 8 THEN "8.x"
    ELSE IF major = 9 THEN "9.x"
    ELSE "Other"

\* The result is a bucket, or the name of the exception the call raises:
\* v.lstrip on a value that is no string is an AttributeError.
categorize_version(v) ==
    IF v.t # "str" THEN "AttributeError"
    ELSE LET parts == re_split(lstrip(v.v, {"v"}))
             major == py_int(parts[1])
         IN  IF ~major.ok THEN "Other" ELSE BucketOfMajor(major.n)

-----------------------------------------------------------------------------
(* classify_module                                                         *)

BidAdapter == <<"B", "i", "d", "A", "d", "a", "p", "t", "e", "r">>
RtdProvider == <<"R", "t", "d", "P", "r", "o", "v", "i", "d", "e", "r">>
rtdModule == <<"r", "t", "d", "M", "o", "d", "u", "l", "e">>
IdSystem == <<"I", "d", "S", "y", "s", "t", "e", "m">>
userId == <<"u", "s", "e", "r", "I", "d">>
Analytics == <<"A", "n", "a", "l", "y", "t", "i", "c", "s">>
analyticsAdapter == <<"a", "n", "a", "l", "y", "t", "i", "c", "s",
                      "A", "d", "a", "p", "t", "e", "r">>

CATEGORIES == <<"Bid Adapter", "RTD Module", "ID System",
                "Analytics Adapter", "Other">>

\* x in name, for strings: name has x as a contiguous substring.
Contains(name, x) ==
    \E i \in 1..(Len(name) - Len(x) + 1) :
        SubSeq(name, i, i + Len(x) - 1) = x

classify_module_analytics_first(name) ==
    IF Contains(name, Analytics) \/ Contains(name, analyticsAdapter)
        THEN "Analytics Adapter"
    ELSE IF Contains(name, BidAdapter) THEN "Bid Adapter"
    ELSE IF Contains(name, RtdProvider) \/ Contains(name, rtdModule)
        THEN "RTD Module"
    ELSE IF Contains(name, IdSystem) \/ Contains(name, userId)
        THEN "ID System"
    ELSE "Other"

classify_module(name) ==
    IF Contains(name, BidAdapter) THEN "Bid Adapter"
    ELSE IF Contains(name, RtdProvider) \/ Contains(name, rtdModule)
        THEN "RTD Module"
    ELSE IF Contains(name, IdSystem) \/ Contains(name, userId)
        THEN "ID System"
    ELSE IF Contains(name, Analytics) \/ Contains(name, analyticsAdapter)
        THEN "Analytics Adapter"
    ELSE "Other"

-----------------------------------------------------------------------------
(* Records.  An element of the loaded list is a mapping (t = "map") or a   *)
(* JSON null (t = "null"); keys is the set of keys the mapping has, and a  *)
(* field whose key is absent holds Null and is never read.  An element of  *)
(* prebidInstances has the same shape, so that [item] is a list of         *)
(* instances.  In list position the model's JSON values are lists or null. *)

EmptyList == List(<<>>)

Blank == [t |-> "map", keys |-> {}, site |-> "", version |-> Null,
          modules |-> Null, libraries |-> Null, globalVarName |-> Null,
          prebidInstances |-> Null]

NullElement == [Blank EXCEPT !.t = "null"]

With(item, k, val) == [item EXCEPT !.keys = @ \cup {k}, ![k] = val]

IsMap(item) == item.t = "map"
Has(item, k) == k \in item.keys                         \* k in item
Get(item, k, d) == IF Has(item, k) THEN item[k] ELSE d  \* item.get(k, d)

\* What a call returns: a value, or the exception it raises.
Ok(val) == [exc |-> "", val |-> val]
Raise(e) == [exc |-> e, val |-> <<>>]
AnyRaised(rs) == \E i \in 1..Len(rs) : rs[i].exc # ""

-----------------------------------------------------------------------------
(* Field extractors (lines 158-194).                                       *)

\* The instances a loop "for inst in item.get('prebidInstances', [])" visits.
InstancesOf(item) == Get(item, "prebidInstances", EmptyList)

extract_versions(item) ==
    IF ~IsMap(item) THEN Raise("TypeError")
    ELSE LET insts == InstancesOf(item)
             top   == IF Has(item, "version") THEN <<item.version>> ELSE <<>>
         IN  IF insts.t # "list" THEN Raise("TypeError")
             ELSE IF \E i \in 1..Len(insts.v) : ~IsMap(insts.v[i])
                 THEN Raise("TypeError")
             ELSE Ok(top \o Flatten([i \in 1..Len(insts.v) |->
                        IF Has(insts.v[i], "version")
                        THEN <<insts.v[i].version>> ELSE <<>>]))

extract_modules(item) ==
    IF ~IsMap(item) THEN Raise("AttributeError")
    ELSE LET top   == Get(item, "modules", EmptyList)
             insts == InstancesOf(item)
         IN  IF top.t # "list" \/ insts.t # "list" THEN Raise("TypeError")
             ELSE IF \E i \in 1..Len(insts.v) : ~IsMap(insts.v[i])
                 THEN Raise("AttributeError")
             ELSE IF \E i \in 1..Len(insts.v) :
                         Get(insts.v[i], "modules", EmptyList).t # "list"
                 THEN Raise("TypeError")
             ELSE Ok(top.v \o Flatten([i \in 1..Len(insts.v) |->
                        Get(insts.v[i], "modules", EmptyList).v]))

count_prebid_instances(item) ==
    IF ~IsMap(item) THEN Raise("TypeError")
    ELSE IF Has(item, "prebidInstances")
        THEN IF item.prebidInstances.t # "list" THEN Raise("TypeError")
             ELSE Ok(Len(item.prebidInstances.v))
    ELSE Ok(IF Has(item, "version") THEN 1 ELSE 0)

\* The JSON value under "libraries", as it is: the caller iterates it.
extract_libraries(item) ==
    IF ~IsMap(item) THEN Raise("AttributeError")
    ELSE Ok(Get(item, "libraries", EmptyList))

\* The names one item contributes (the body of the loop, lines 188-193).
GlobalVarNamesOfItem(item) ==
    IF ~IsMap(item) THEN Raise("TypeError")
    ELSE IF Has(item, "prebidInstances")
        THEN LET insts == item.prebidInstances
             IN  IF insts.t # "list" THEN Raise("TypeError")
                 ELSE IF \E i \in 1..Len(insts.v) : ~IsMap(insts.v[i])
                     THEN Raise("TypeError")
                 ELSE Ok(Flatten([i \in 1..Len(insts.v) |->
                            IF Has(insts.v[i], "globalVarName")
                            THEN <<insts.v[i].globalVarName>> ELSE <<>>]))
    ELSE IF Has(item, "globalVarName") THEN Ok(<<item.globalVarName>>)
    ELSE Ok(<<>>)

extract_global_var_names(d) ==
    LET per == [i \in 1..Len(d) |-> GlobalVarNamesOfItem(d[i])]
    IN  IF AnyRaised(per) THEN Raise("TypeError")
        ELSE Ok(Flatten([i \in 1..Len(d) |-> per[i].val]))

-----------------------------------------------------------------------------
(* Cached dataframe builders (lines 199-251).  A two-column dataframe with *)
(* a fixed row order is a sequence of rows [key, count]; a value_counts    *)
(* result and a Counter are functions from the values seen to their        *)
(* counts (the order of their rows plays no part in what is modelled).     *)

INSTANCE_BUCKETS == <<"0", "1", "2", "3", "4", "5", "6+">>

\* Series.value_counts(): each distinct value with its number of occurrences.
value_counts(s) ==
    [x \in Range(s) |-> Cardinality({i \in 1..Len(s) : s[i] = x})]

\* value_counts() of a categorical series: every category has a row.
value_counts_categorical(s, categories) ==
    [x \in Range(categories) |-> Cardinality({i \in 1..Len(s) : s[i] = x})]

reindex_no_fill(vc, order) ==
    LET present == SelectSeq(order, LAMBDA k : k \in DOMAIN vc)
    IN  [i \in 1..Len(present) |->
            [key |-> present[i], count |-> vc[present[i]]]]

\* .reindex(order, fill_value=0): one row per label of order, in that order.
reindex(vc, order) ==
    [i \in 1..Len(order) |->
        [key |-> order[i],
         count |-> IF order[i] \in DOMAIN vc THEN vc[order[i]] ELSE 0]]

\* The right edges of the bins [-0.1, 0, 1, 2, 3, 4, 5, inf] below infinity.
BinRightEdges == <<0, 1, 2, 3, 4, 5>>

\* pd.cut(..., labels=INSTANCE_BUCKETS): the label of the first bin whose
\* right edge is not below the count (counts are lengths, so above -0.1).
cut(c) ==
    LET fits == {k \in 1..Len(BinRightEdges) : c <= BinRightEdges[k]}
    IN  IF fits = {} THEN INSTANCE_BUCKETS[Len(INSTANCE_BUCKETS)]
        ELSE INSTANCE_BUCKETS[Min(fits)]

build_version_df(d) ==
    LET per     == [i \in 1..Len(d) |-> extract_versions(d[i])]
        vers    == Flatten([i \in 1..Len(d) |-> per[i].val])
        buckets == [i \in 1..Len(vers) |-> categorize_version(vers[i])]
    IN  IF AnyRaised(per) THEN Raise("TypeError")
        ELSE IF \E i \in 1..Len(buckets) : buckets[i] = "AttributeError"
            THEN Raise("AttributeError")
        ELSE Ok(reindex(value_counts(buckets), VERSION_ORDER))

build_instance_df(d) ==
    LET per  == [i \in 1..Len(d) |-> count_prebid_instances(d[i])]
        bins == [i \in 1..Len(d) |-> cut(per[i].val)]
    IN  IF AnyRaised(per) THEN Raise("TypeError")
        ELSE Ok(reindex(value_counts_categorical(bins, INSTANCE_BUCKETS),
                        INSTANCE_BUCKETS))

build_library_df(d) ==
    LET per == [i \in 1..Len(d) |-> extract_libraries(d[i])]
    IN  IF AnyRaised(per) THEN Raise("AttributeError")
        ELSE IF \E i \in 1..Len(d) : per[i].val.t # "list"
            THEN Raise("TypeError")
        ELSE Ok(value_counts(Flatten([i \in 1..Len(d) |-> per[i].val.v])))

build_global_df(d) ==
    LET names == extract_global_var_names(d)
    IN  IF names.exc # "" THEN names ELSE Ok(value_counts(names.val))

\* Counter(): no key yet, and a key that is missing counts 0.
NewCounters == [c \in Range(CATEGORIES) |-> <<>>]
CountOf(counter, m) == IF m \in DOMAIN counter THEN counter[m] ELSE 0

\* Line 241: the instances of an item, the item itself standing in for them
\* when it has a version and no prebidInstances key.
prebid_insts(item) ==
    IF Has(item, "version")
    THEN Get(item, "prebidInstances", List(<<item>>))
    ELSE Get(item, "prebidInstances", EmptyList)

\* mods_inst = set(inst.get("modules", []))
mods_inst(inst) == Range(Get(inst, "modules", EmptyList).v)

ItemRaisesInStats(item) ==
    \/ ~IsMap(item)
    \/ prebid_insts(item).t # "list"
    \/ \E j \in 1..Len(prebid_insts(item).v) :
          \/ ~IsMap(prebid_insts(item).v[j])
          \/ Get(prebid_insts(item).v[j], "modules", EmptyList).t # "list"

\* The module sets of the instances of an item, in order.
InstanceModuleSets(item) ==
    [j \in 1..Len(prebid_insts(item).v) |->
        mods_inst(prebid_insts(item).v[j])]

\* The counters a run of "counter[classify_module(m)][m] += 1" leaves: per
\* category, each module of that category that was counted, with the number
\* of times it was.  sets[i] are the sets the loop walks for item i.
Counted(sets, seen) ==
    [c \in Range(CATEGORIES) |->
        [m \in {x \in seen : classify_module(x) = c} |->
            SumSeq([i \in 1..Len(sets) |->
                       Cardinality({j \in 1..Len(sets[i]) :
                                       m \in sets[i][j]})])]]

\* Per item, mods_inst of each of its instances and site_mods, their union.
ModuleSets(d) ==
    [inst |-> [i \in 1..Len(d) |-> InstanceModuleSets(d[i])],
     site |-> [i \in 1..Len(d) |-> <<UNION Range(InstanceModuleSets(d[i]))>>],
     seen |-> UNION {UNION Range(InstanceModuleSets(d[i])) :
                         i \in 1..Len(d)}]

StatsOfSets(s) ==
    [site  |-> Counted(s.site, s.seen),
     inst  |-> Counted(s.inst, s.seen),
     total |-> SumSeq([i \in 1..Len(s.inst) |-> Len(s.inst[i])])]

\* site_counter, inst_counter and total_instances after the loop of lines
\* 240-250 (the sets are bound once, then counted).
ModuleStats(d) == CHOOSE r \in {StatsOfSets(s) : s \in {ModuleSets(d)}} : TRUE

build_module_stats(d) ==
    IF \E i \in 1..Len(d) : ItemRaisesInStats(d[i]) THEN Raise("TypeError")
    ELSE Ok(ModuleStats(d))

-----------------------------------------------------------------------------
(* The inputs: what the data source serves, what the slider offers.        *)

\* st.sidebar.slider(label, 50, 500, 300, 25): min, max, default, step.
SLIDER_MIN == 50
SLIDER_MAX == 500
SLIDER_DEFAULT == 300
SLIDER_STEP == 25

SliderValues ==
    {m \in SLIDER_MIN..SLIDER_MAX : (m - SLIDER_MIN) % SLIDER_STEP = 0}

\* The positions of the slider the model tries: its ends and its default.
SliderChoices == SliderValues \cap {SLIDER_MIN, SLIDER_DEFAULT, SLIDER_MAX}

RECURSIVE WithAll(_, _)
WithAll(item, kvs) ==
    IF kvs = <<>> THEN item
    ELSE WithAll(With(item, Head(kvs)[1], Head(kvs)[2]), Tail(kvs))

Site(s, kvs) == WithAll([Blank EXCEPT !.keys = {"site"}, !.site = s], kvs)
Inst(kvs) == WithAll(Blank, kvs)

aBidAdapter == <<"a">> \o BidAdapter
pBidAdapter == <<"p">> \o BidAdapter
xAnalytics == <<"x">> \o Analytics
DigitChars == <<"0", "1", "2", "3", "4", "5", "6", "7", "8", "9">>

RECURSIVE Decimal(_)
Decimal(n) ==
    IF n < 10 THEN <<DigitChars[n + 1]>>
    ELSE Decimal(n \div 10) \o <<DigitChars[(n % 10) + 1]>>

\* n distinct module names: m1, m2, ...
BulkModules(n) == [i \in 1..n |-> <<"m">> \o Decimal(i)]

Repeat(x, n) == [i \in 1..n |-> x]

ExampleSite ==
    Site("a.com", << <<"version", Str(<<"v", "7", ".", "5", "2", ".", "0">>)>>,
                     <<"modules", List(<<aBidAdapter, pBidAdapter>>)>> >>)

NestedSite ==
    Site("a.com",
         << <<"version", Str(<<"8", ".", "1">>)>>,
            <<"modules", List(<<aBidAdapter>>)>>,
            <<"libraries", List(<<"jquery">>)>>,
            <<"globalVarName", Str(<<"p", "b", "j", "s">>)>>,
            <<"prebidInstances", List(<<
                Inst(<< <<"version", Str(<<"9", ".", "0">>)>>,
                        <<"modules",
                          List(<<xAnalytics, xAnalytics, userId>>)>>,
                        <<"libraries", List(<<"gpt">>)>>,
                        <<"globalVarName", Str(<<"p", "b", "2">>)>> >>) >>)>> >>)

NoVersionSite ==
    Site("b.com", << <<"modules", List(<<userId>>)>>,
                     <<"libraries", List(<<"jquery", "jquery">>)>> >>)

EmptyInstancesSite ==
    Site("b.com", << <<"version", Str(<<"1", "0", ".", "2">>)>>,
                     <<"prebidInstances", EmptyList>> >>)

BareSite == Site("c.com", <<>>)

TwoInstanceSite ==
    Site("c.com",
         << <<"prebidInstances", List(<<
                Inst(<< <<"version", Str(<<"9", "-", "p", "r", "e">>)>>,
                        <<"modules", List(<<pBidAdapter>>)>>,
                        <<"globalVarName", Str(<<"p", "b", "j", "s">>)>> >>),
                Inst(<< <<"modules", List(<<pBidAdapter, rtdModule>>)>> >>)
            >>)>> >>)

ManyInstanceSite ==
    Site("d.com",
         << <<"prebidInstances",
              List(Repeat(Inst(<< <<"version", Str(<<"2">>)>> >>), 6))>> >>)

BulkSite(n) ==
    Site("d.com", << <<"version", Str(<<"3", ".", "0">>)>>,
                     <<"modules", List(BulkModules(n))>> >>)

SplitBulkSite ==
    Site("e.com",
         << <<"modules", List(BulkModules(SLIDER_DEFAULT))>>,
            <<"prebidInstances",
              List(<<Inst(<< <<"modules", List(BulkModules(1))>> >>)>>)>> >>)

\* Records of the shapes the scan output has (every field of its JSON type).
WellFormedRecords ==
    {ExampleSite, NestedSite, NoVersionSite, EmptyInstancesSite, BareSite,
     TwoInstanceSite, ManyInstanceSite, BulkSite(SLIDER_DEFAULT),
     BulkSite(SLIDER_DEFAULT + 1), SplitBulkSite}

\* Elements a feed can also hold: a null element, and null fields.
MalformedRecords ==
    {NullElement,
     Site("a.com", << <<"version", Null>> >>),
     Site("a.com", << <<"version", Str(<<"8">>)>>, <<"modules", Null>> >>),
     Site("b.com", << <<"version", Str(<<"8">>)>>,
                      <<"prebidInstances", Null>> >>)}

-----------------------------------------------------------------------------
(* The script run (lines 265-313).  pc: "load" while the list is gathered, *)
(* "loaded", "cleansed", "metrics", "done"; "stopped" after st.stop(),     *)
(* "raised" after an uncaught exception ended the run.                     *)

NoMetrics == [num |-> 0, den |-> 1]

Idle ==
    /\ combined = <<>>
    /\ raw_data = <<>>
    /\ MAX_MODULES = SLIDER_DEFAULT
    /\ data = <<>>
    /\ site_count = 0
    /\ sites_with_pb = 0
    /\ instance_total = 0
    /\ avg_mods = NoMetrics
    /\ version_df = <<>>
    /\ instance_df = <<>>
    /\ library_df = <<>>
    /\ global_df = <<>>
    /\ module_site_counter = NewCounters
    /\ module_inst_counter = NewCounters

NoCall ==
    /\ ver_in = Null
    /\ ver_out = ""
    /\ mod_in = <<>>
    /\ mod_out = ""

\* _extend_from_raw: combined.extend(the list one file holds); a download
\* that fails leaves combined as it is.
ExtendFromRaw ==
    /\ pc = "load"
    /\ \E f \in SeqsUpTo(feed, MaxRecords - Len(combined)) :
           combined' = combined \o f
    /\ UNCHANGED <<pc, feed, raw_data, MAX_MODULES, data, site_count,
                   sites_with_pb, instance_total, avg_mods, version_df,
                   instance_df, library_df, global_df, module_site_counter,
                   module_inst_counter, ver_in, ver_out, mod_in, mod_out>>

\* raw_data = load_all_months()
LoadAllMonths ==
    /\ pc = "load"
    /\ raw_data' = combined
    /\ pc' = "loaded"
    /\ UNCHANGED <<feed, combined, MAX_MODULES, data, site_count,
                   sites_with_pb, instance_total, avg_mods, version_df,
                   instance_df, library_df, global_df, module_site_counter,
                   module_inst_counter, ver_in, ver_out, mod_in, mod_out>>

\* raw_data = load_uploaded_json(upload_file) or load_json_from_url(json_url)
LoadSingleFeed ==
    /\ pc = "load"
    /\ combined = <<>>
    /\ \E f \in SeqsUpTo(feed, MaxRecords) : raw_data' = f
    /\ pc' = "loaded"
    /\ UNCHANGED <<feed, combined, MAX_MODULES, data, site_count,
                   sites_with_pb, instance_total, avg_mods, version_df,
                   instance_df, library_df, global_df, module_site_counter,
                   module_inst_counter, ver_in, ver_out, mod_in, mod_out>>

KeepItem_strict(item, max) == Len(extract_modules(item).val) < max

\* The condition of the comprehension of line 285.
KeepItem(item, max) == Len(extract_modules(item).val) <= max

\* Lines 276-288: stop on no data, read the slider, filter, stop on nothing
\* left.
DataCleanse ==
    /\ pc = "loaded"
    /\ IF raw_data = <<>>
       THEN /\ pc' = "stopped"
            /\ UNCHANGED <<MAX_MODULES, data>>
       ELSE \E m \in SliderChoices :
              /\ MAX_MODULES' = m
              /\ IF \E i \in 1..Len(raw_data) :
                        extract_modules(raw_data[i]).exc # ""
                 THEN /\ pc' = "raised"
                      /\ data' = data
                 ELSE /\ data' = SelectSeq(raw_data,
                                           LAMBDA item : KeepItem(item, m))
                      /\ pc' = IF data' = <<>> THEN "stopped" ELSE "cleansed"
    /\ UNCHANGED <<feed, combined, raw_data, site_count, sites_with_pb,
                   instance_total, avg_mods, version_df, instance_df,
                   library_df, global_df, module_site_counter,
                   module_inst_counter, ver_in, ver_out, mod_in, mod_out>>

\* Lines 293-296.
SummaryMetrics ==
    /\ pc = "cleansed"
    /\ LET counts == [i \in 1..Len(data) |-> count_prebid_instances(data[i])]
           mods   == [i \in 1..Len(data) |-> extract_modules(data[i])]
           total  == SumSeq([i \in 1..Len(data) |-> counts[i].val])
       IN  IF AnyRaised(counts) \/ AnyRaised(mods)
           THEN /\ pc' = "raised"
                /\ UNCHANGED <<site_count, sites_with_pb, instance_total,
                               avg_mods>>
           ELSE /\ site_count' = Len(data)
                /\ sites_with_pb' =
                       Cardinality({i \in 1..Len(data) : counts[i].val > 0})
                /\ instance_total' = total
                /\ avg_mods' =
                       [num |-> SumSeq([i \in 1..Len(data) |->
                                           Len(mods[i].val)]),
                        den |-> Max2(total, 1)]
                /\ pc' = "metrics"
    /\ UNCHANGED <<feed, combined, raw_data, MAX_MODULES, data, version_df,
                   instance_df, library_df, global_df, module_site_counter,
                   module_inst_counter, ver_in, ver_out, mod_in, mod_out>>

\* Lines 309-313: the five builders in turn; the first that raises ends the
\* run with the earlier results assigned.
BuildDataFrames ==
    /\ pc = "metrics"
    /\ \E v \in {build_version_df(data)}, n \in {build_instance_df(data)},
          l \in {build_library_df(data)}, g \in {build_global_df(data)},
          ms \in {build_module_stats(data)} :
          LET okV == v.exc = ""
              okN == okV /\ n.exc = ""
              okL == okN /\ l.exc = ""
              okG == okL /\ g.exc = ""
              okM == okG /\ ms.exc = ""
          IN  /\ version_df' = IF okV THEN v.val ELSE version_df
              /\ instance_df' = IF okN THEN n.val ELSE instance_df
              /\ library_df' = IF okL THEN l.val ELSE library_df
              /\ global_df' = IF okG THEN g.val ELSE global_df
              /\ module_site_counter' =
                     IF okM THEN ms.val.site ELSE module_site_counter
              /\ module_inst_counter' =
                     IF okM THEN ms.val.inst ELSE module_inst_counter
              /\ pc' = IF okM THEN "done" ELSE "raised"
    /\ UNCHANGED <<feed, combined, raw_data, MAX_MODULES, data, site_count,
                   sites_with_pb, instance_total, avg_mods, ver_in, ver_out,
                   mod_in, mod_out>>

Init == pc = "load" /\ feed = WellFormedRecords /\ Idle /\ NoCall

Next ==
    \/ ExtendFromRaw
    \/ LoadAllMonths
    \/ LoadSingleFeed
    \/ DataCleanse
    \/ SummaryMetrics
    \/ BuildDataFrames

\* The script run over a feed of well-formed records.
Spec == Init /\ [][Next]_vars

\* The script run over a feed that may also hold malformed elements.
InitRaw ==
    /\ pc = "load"
    /\ feed = WellFormedRecords \cup MalformedRecords
    /\ Idle
    /\ NoCall

SpecRaw == InitRaw /\ [][Next]_vars

\* The aggregation applied to any list of well-formed records, the empty
\* one included.
InitAgg ==
    /\ pc = "cleansed"
    /\ feed = WellFormedRecords
    /\ data \in SeqsUpTo(WellFormedRecords, MaxRecords)
    /\ raw_data = data
    /\ combined = <<>>
    /\ MAX_MODULES = SLIDER_MAX
    /\ site_count = 0
    /\ sites_with_pb = 0
    /\ instance_total = 0
    /\ avg_mods = NoMetrics
    /\ version_df = <<>>
    /\ instance_df = <<>>
    /\ library_df = <<>>
    /\ global_df = <<>>
    /\ module_site_counter = NewCounters
    /\ module_inst_counter = NewCounters
    /\ NoCall

NextAgg == SummaryMetrics \/ BuildDataFrames

SpecAgg == InitAgg /\ [][NextAgg]_vars

-----------------------------------------------------------------------------
(* The classifiers applied to bounded inputs.                              *)

VersionChars ==
    {"v", "0", "1", "2", "3", "5", "6", "7", "8", "9", ".", "-", "x", "+",
     "_", " "}

\* What a "version" key can hold: a string, or null.
VersionInputs ==
    {Str(s) : s \in SeqsUpTo(VersionChars, MaxVersionLen)} \cup {Null}

CategorizeVersion ==
    /\ pc = "call"
    /\ ver_out = ""
    /\ ver_out' = categorize_version(ver_in)
    /\ UNCHANGED <<pipeVars, ver_in, mod_in, mod_out>>

InitVersion ==
    /\ pc = "call"
    /\ feed = {}
    /\ Idle
    /\ ver_in \in VersionInputs
    /\ ver_out = ""
    /\ mod_in = <<>>
    /\ mod_out = ""

SpecVersion == InitVersion /\ [][CategorizeVersion]_vars

Fragments ==
    {BidAdapter, RtdProvider, rtdModule, IdSystem, userId, Analytics,
     analyticsAdapter, <<"b", "i", "d", "a", "d", "a", "p", "t", "e", "r">>,
     <<"B", "i", "d">>, <<"A", "d", "a", "p", "t", "e", "r">>, <<"x">>}

\* Module names: up to MaxFragments fragments, joined.
ModuleNames == {Flatten(fs) : fs \in SeqsUpTo(Fragments, MaxFragments)}

ClassifyModule ==
    /\ pc = "call"
    /\ mod_out = ""
    /\ mod_out' = classify_module(mod_in)
    /\ UNCHANGED <<pipeVars, ver_in, ver_out, mod_in>>

InitModule ==
    /\ pc = "call"
    /\ feed = {}
    /\ Idle
    /\ ver_in = Null
    /\ ver_out = ""
    /\ mod_in \in ModuleNames
    /\ mod_out = ""

SpecModule == InitModule /\ [][ClassifyModule]_vars

-----------------------------------------------------------------------------
(* The properties.                                                         *)

\* name has x as a substring: name = pre \o x \o suf for some pre and suf.
HasSub(name, x) ==
    \E i \in 0..Len(name) : \E j \in i..Len(name) : SubSeq(name, i + 1, j) = x

\* The token before the first "." or "-" of s.
MajorToken(s) ==
    IF \E i \in 1..Len(s) : s[i] \in {".", "-"}
    THEN SubSeq(s, 1, Min({i \in 1..Len(s) : s[i] \in {".", "-"}}) - 1)
    ELSE s

\* The bucket the specification gives a version string: one leading "v"
\* stripped, the major token parsed, the table of section 4.3 applied.
SpecifiedBucket(s) ==
    LET major == py_int(MajorToken(IF s # <<>> /\ Head(s) = "v"
                                   THEN Tail(s) ELSE s))
    IN  IF ~major.ok THEN "Other"
        ELSE IF major.n < 0 THEN "Other"
        ELSE IF major.n <= 2 THEN "0.x-2.x"
        ELSE IF major.n <= 5 THEN "3.x-5.x"
        ELSE IF major.n <= 7 THEN "6.x-7.x"
        ELSE IF major.n = 8 THEN "8.x"
        ELSE IF major.n = 9 THEN "9.x"
        ELSE "Other"

\* C1: for every version string, categorize_version returns the bucket of
\* the integer major found after stripping a leading "v" and cutting at the
\* first "." or "-": 0.x-2.x, 3.x-5.x, 6.x-7.x, 8.x, 9.x by the fixed
\* boundaries, and Other for everything else.
C1_VersionBuckets ==
    (ver_out # "" /\ ver_in.t = "str") => ver_out = SpecifiedBucket(ver_in.v)

\* C2: categorize_version is total and never raises: for a string, the empty
\* string or a null version the result is one of the six buckets, and empty
\* or null input gives Other.
C2_CategorizeTotal ==
    ver_out # "" =>
        /\ ver_out \in Range(VERSION_ORDER)
        /\ (ver_in = Null \/ ver_in = Str(<<>>)) => ver_out = "Other"

\* C3: classify_module gives every name exactly one of the five categories,
\* the first rule that matches winning, in the order BidAdapter; RtdProvider
\* or rtdModule; IdSystem or userId; Analytics or analyticsAdapter; Other.
\* A name with both BidAdapter and Analytics is a Bid Adapter.
C3_ClassifyPriority ==
    mod_out # "" =>
        LET bid == HasSub(mod_in, BidAdapter)
            rtd == HasSub(mod_in, RtdProvider) \/ HasSub(mod_in, rtdModule)
            ids == HasSub(mod_in, IdSystem) \/ HasSub(mod_in, userId)
            ana == HasSub(mod_in, Analytics)
                       \/ HasSub(mod_in, analyticsAdapter)
        IN  /\ mod_out \in Range(CATEGORIES)
            /\ mod_out = "Bid Adapter" <=> bid
            /\ mod_out = "RTD Module" <=> (~bid /\ rtd)
            /\ mod_out = "ID System" <=> (~bid /\ ~rtd /\ ids)
            /\ mod_out = "Analytics Adapter" <=> (~bid /\ ~rtd /\ ~ids /\ ana)
            /\ mod_out = "Other" <=> (~bid /\ ~rtd /\ ~ids /\ ~ana)

C3_Witness ==
    /\ mod_out = "Bid Adapter"
    /\ HasSub(mod_in, BidAdapter)
    /\ HasSub(mod_in, Analytics)

\* The values under key k of a well-formed record: its own, then those of
\* each element of prebidInstances in turn.
ListedInstances(item) ==
    IF Has(item, "prebidInstances") THEN item.prebidInstances.v ELSE <<>>

FlatList(item, k) ==
    (IF Has(item, k) THEN item[k].v ELSE <<>>)
        \o Flatten([j \in 1..Len(ListedInstances(item)) |->
                       IF Has(ListedInstances(item)[j], k)
                       THEN ListedInstances(item)[j][k].v ELSE <<>>])

FlatScalars(item, k) ==
    (IF Has(item, k) THEN <<item[k]>> ELSE <<>>)
        \o Flatten([j \in 1..Len(ListedInstances(item)) |->
                       IF Has(ListedInstances(item)[j], k)
                       THEN <<ListedInstances(item)[j][k]>> ELSE <<>>])

Occurrences(s, x) == Cardinality({i \in 1..Len(s) : s[i] = x})

\* C4: after build_module_stats, the "sites" count of every module m is the
\* number of records whose flattened module list holds m, its "instances"
\* count is the number of occurrences of m across all records, and the
\* sites count is at most the instances count.
C4_ModuleStatsCounts ==
    pc = "done" =>
        \A flat \in {[i \in 1..Len(data) |-> FlatList(data[i], "modules")]} :
            \A m \in UNION {Range(flat[i]) : i \in 1..Len(data)} :
                LET sites ==
                        CountOf(module_site_counter[classify_module(m)], m)
                    insts ==
                        CountOf(module_inst_counter[classify_module(m)], m)
                IN  /\ sites = Cardinality({i \in 1..Len(data) :
                                               m \in Range(flat[i])})
                    /\ insts = SumSeq([i \in 1..Len(data) |->
                                          Occurrences(flat[i], m)])
                    /\ sites <= insts

\* The instance count the specification gives a record: the number of listed
\* instances, and 1 when that is zero and a top-level version is present.
SpecifiedInstanceCount(item) ==
    IF Len(ListedInstances(item)) = 0 /\ Has(item, "version") THEN 1
    ELSE Len(ListedInstances(item))

\* C5: the instance count behind the headline metrics and the instance
\* histogram is the number of listed prebidInstances, a record with a
\* top-level version and no (absent or empty) prebidInstances counting as
\* one instance, a record with neither as none.
C5_ImplicitInstance ==
    /\ pc \in {"metrics", "done"} =>
          /\ instance_total =
                 SumSeq([i \in 1..Len(data) |->
                            SpecifiedInstanceCount(data[i])])
          /\ sites_with_pb =
                 Cardinality({i \in 1..Len(data) :
                                 SpecifiedInstanceCount(data[i]) > 0})
    /\ pc = "done" =>
          \A r \in 1..Len(instance_df) :
              instance_df[r].count =
                  Cardinality({i \in 1..Len(data) :
                      cut(SpecifiedInstanceCount(data[i]))
                          = instance_df[r].key})

\* C6: the flattened module, library and global-name lists of a record are
\* its top-level values followed by those of every prebidInstances element
\* in order, duplicates kept and nothing dropped.
C6_FlattenedLists ==
    /\ pc \in {"metrics", "done"} =>
          avg_mods.num = SumSeq([i \in 1..Len(data) |->
                                    Len(FlatList(data[i], "modules"))])
    /\ pc = "done" =>
          /\ library_df = value_counts(Flatten([i \in 1..Len(data) |->
                              FlatList(data[i], "libraries")]))
          /\ global_df = value_counts(Flatten([i \in 1..Len(data) |->
                              FlatScalars(data[i], "globalVarName")]))

\* C7: the records the metrics and aggregates are computed over hold at most
\* one record per site: the first record of a site is kept, every later one
\* of the same site is dropped, and "Total sites scanned" counts distinct
\* sites.
C7_OneRecordPerSite ==
    /\ pc \in {"cleansed", "metrics", "done"} =>
          \A i, j \in 1..Len(data) : i # j => data[i].site # data[j].site
    /\ pc \in {"metrics", "done"} =>
          site_count = Cardinality({data[i].site : i \in 1..Len(data)})

\* The total flattened module count of a record.
TotalModuleCount(item) ==
    (IF Has(item, "modules") THEN Len(item.modules.v) ELSE 0)
        + SumSeq([j \in 1..Len(ListedInstances(item)) |->
                     IF Has(ListedInstances(item)[j], "modules")
                     THEN Len(ListedInstances(item)[j].modules.v) ELSE 0])

WithinThreshold(item) == TotalModuleCount(item) <= MAX_MODULES

\* C8: the filter keeps, in their order, exactly the records whose total
\* flattened module count is at most the threshold, and what it drops
\* contributes to no metric or aggregate.
C8_FilterKeepsWithinThreshold ==
    /\ (pc \in {"cleansed", "metrics", "done"}
           \/ (pc = "stopped" /\ raw_data # <<>>)) =>
          data = SelectSeq(raw_data, WithinThreshold)
    /\ pc \in {"metrics", "done"} =>
          /\ site_count = Cardinality({i \in 1..Len(raw_data) :
                                          WithinThreshold(raw_data[i])})
          /\ avg_mods.num =
                 SumSeq([i \in 1..Len(raw_data) |->
                            IF WithinThreshold(raw_data[i])
                            THEN TotalModuleCount(raw_data[i]) ELSE 0])
    /\ pc = "done" =>
          SumSeq([r \in 1..Len(instance_df) |-> instance_df[r].count])
              = Cardinality({i \in 1..Len(raw_data) :
                                WithinThreshold(raw_data[i])})

\* At the default threshold a record of 301 modules is dropped and one of 300
\* is kept.
C8_Witness ==
    /\ pc = "done"
    /\ MAX_MODULES = SLIDER_DEFAULT
    /\ \E i \in 1..Len(raw_data) :
           TotalModuleCount(raw_data[i]) = SLIDER_DEFAULT + 1
    /\ Len(data) = 1
    /\ TotalModuleCount(data[1]) = SLIDER_DEFAULT
    /\ site_count = 1

WithoutMalformed == SelectSeq(raw_data, LAMBDA r : r \notin MalformedRecords)

\* C10: no bad record aborts the run: a batch with a malformed record (a
\* non-mapping element, a null version, modules or prebidInstances) is
\* processed with that record skipped, the metrics and aggregates being
\* those of the batch without it.
C10_BadRecordSkipped ==
    /\ pc # "raised"
    /\ pc \in {"metrics", "done"} =>
          site_count = Len(SelectSeq(WithoutMalformed, WithinThreshold))
    /\ pc = "done" =>
          version_df = build_version_df(
                           SelectSeq(WithoutMalformed, WithinThreshold)).val

=============================================================================
